---------------------------- MODULE Spec2Model ----------------------------
(***************************************************************************)
(* A model of main.js: the slide deck with its typewriter effect, the      *)
(* start-up sequence init() with its two bulk fetches, the per-variable    *)
(* statistics (computeVarStats), the two aggregations (the by-state rollup *)
(* of updateMap, the by-date rollup of buildSeriesForState) and the event  *)
(* handlers that keep the map and the seasonal chart in step with the      *)
(* selection (currentVar, currentYear, currentMonth, selectedState).       *)
(*                                                                         *)
(* Numbers.  A JavaScript value that is a number, null, undefined or NaN   *)
(* is a record [t, n, d]: t is its kind and, for a number, n/d is its      *)
(* value as a fraction in lowest terms with d > 0.  Means and tick values  *)
(* are therefore exact.                                                    *)
(***************************************************************************)
EXTENDS Integers, Sequences, FiniteSets, TLC

VARIABLES
    pc,             \* where init() stands: "start", "loading", "loaded", "ready", "rejected"
    csv,            \* the d3.csv request: [state, rows]
    json,           \* the d3.json request: [state, kind]
    modisData,      \* the record store (a sequence of rows)
    statesGeo,      \* the state features of the map (a set of names), {} before loading
    varStats,       \* key -> {min, max, thresholds, colors}; the empty function before
    currentVar, currentYear, currentMonth, selectedState,
    valuesByState,  \* the rollup of the last updateMap
    mapFill,        \* the fill each state path is given; the empty function before initMap
    legend,         \* what #mapLegend holds
    chartSeries,    \* the datum of the line path of the seasonal chart
    series,         \* what the last buildSeriesForState returned
    stateTitle,     \* what #stateTitle / #stateSubtitle say: [state, var]
    highlight,      \* the state whose path has the highlight stroke
    calls,          \* the functions of the data side that have been entered so far
    threw,          \* the last task ended in an uncaught TypeError
    slideKind,      \* the document: per slide "plain", "type" or "typeNoEl"
    fullText,       \* the document: per slide the data-fulltext attribute
    currentSlide,
    active,         \* the pager dots that carry the class "active"
    typingStarted,
    textContent,    \* per slide the text of its .typewriter element
    timers,         \* pending setTimeout(tick, 22) closures: a sequence of [id, slide, i]
    chains          \* per slide the number of tick chains started on it

dataVars  == <<pc, csv, json, modisData, statesGeo, varStats, currentVar, currentYear,
               currentMonth, selectedState, valuesByState, mapFill, legend, chartSeries,
               series, stateTitle, highlight, calls, threw>>
slideVars == <<slideKind, fullText, currentSlide, active, typingStarted, textContent,
               timers, chains>>
vars      == <<dataVars, slideVars>>

----------------------------------------------------------------------------
(* Bounds of the model *)

MaxRows    == 3     \* rows of a table given to the aggregations
MaxGridVal == 1     \* the readings 0..MaxGridVal of the tables fetched at start-up
NumSlides  == 2     \* slides of the document
MaxTextLen == 2     \* characters of a data-fulltext attribute

(* Program constants *)

TickCount  == 5     \* d3.ticks(min, max, 5)
FirstYear  == 2014  \* let currentYear = 2014
FirstMonth == 1     \* let currentMonth = 1

----------------------------------------------------------------------------
(* Numbers, null, undefined, NaN *)

RECURSIVE GCD(_, _)
GCD(a, b) == IF b = 0 THEN a ELSE GCD(b, a % b)

Abs(x) == IF x < 0 THEN -x ELSE x

Num(n, d) ==
    LET g == GCD(Abs(n), Abs(d))
        s == IF d < 0 THEN -1 ELSE 1
    IN  [t |-> "num", n |-> s * (n \div g), d |-> s * (d \div g)]

IntNum(k) == [t |-> "num", n |-> k, d |-> 1]
Null      == [t |-> "null", n |-> 0, d |-> 1]
Undefined == [t |-> "undefined", n |-> 0, d |-> 1]
NaN       == [t |-> "NaN", n |-> 0, d |-> 1]

IsNum(x)    == x.t = "num"
\* v != null: neither null nor undefined
NotNullish(x) == x.t \notin {"null", "undefined"}
\* v != null && !Number.isNaN(v)
IsValid(x)  == NotNullish(x) /\ x # NaN

Lt(a, b)  == a.n * b.d < b.n * a.d
Leq(a, b) == a.n * b.d <= b.n * a.d
Add(a, b) == Num(a.n * b.d + b.n * a.d, a.d * b.d)
Div(a, k) == Num(a.n, a.d * k)

RECURSIVE Pow10(_)
Pow10(k) == IF k = 0 THEN 1 ELSE 10 * Pow10(k - 1)


----------------------------------------------------------------------------
(* The d3 functions main.js calls, as d3 v7 computes them *)

\* d3.min(values): undefined for no values; null and NaN are skipped
D3Min(vals) ==
    LET m[i \in 0..Len(vals)] ==
            IF i = 0 THEN Undefined
            ELSE IF IsValid(vals[i]) /\ (m[i-1] = Undefined \/ Lt(vals[i], m[i-1]))
                 THEN vals[i] ELSE m[i-1]
    IN  m[Len(vals)]

\* d3.max(values)
D3Max(vals) ==
    LET m[i \in 0..Len(vals)] ==
            IF i = 0 THEN Undefined
            ELSE IF IsValid(vals[i]) /\ (m[i-1] = Undefined \/ Lt(m[i-1], vals[i]))
                 THEN vals[i] ELSE m[i-1]
    IN  m[Len(vals)]

\* A mean that answers 0 for a group without a valid value
D3MeanZeroWhenEmpty(vals) ==
    LET acc[i \in 0..Len(vals)] ==
            IF i = 0 THEN [count |-> 0, sum |-> IntNum(0)]
            ELSE IF IsValid(vals[i])
                 THEN [count |-> acc[i-1].count + 1, sum |-> Add(acc[i-1].sum, vals[i])]
                 ELSE acc[i-1]
        r == acc[Len(vals)]
    IN  IF r.count > 0 THEN Div(r.sum, r.count) ELSE IntNum(0)

\* A mean that counts a null cell as the number 0 (+null is 0)
D3MeanNullAsZero(vals) ==
    LET acc[i \in 0..Len(vals)] ==
            IF i = 0 THEN [count |-> 0, sum |-> IntNum(0)]
            ELSE IF IsValid(vals[i])
                 THEN [count |-> acc[i-1].count + 1, sum |-> Add(acc[i-1].sum, vals[i])]
                 ELSE IF vals[i] = Null
                      THEN [count |-> acc[i-1].count + 1, sum |-> acc[i-1].sum]
                      ELSE acc[i-1]
        r == acc[Len(vals)]
    IN  IF r.count > 0 THEN Div(r.sum, r.count) ELSE Undefined

\* d3.mean(values): count and sum run over the values that are neither
\* null/undefined nor NaN; undefined when there is none
D3Mean(vals) ==
    LET acc[i \in 0..Len(vals)] ==
            IF i = 0 THEN [count |-> 0, sum |-> IntNum(0)]
            ELSE IF IsValid(vals[i])
                 THEN [count |-> acc[i-1].count + 1, sum |-> Add(acc[i-1].sum, vals[i])]
                 ELSE acc[i-1]
        r == acc[Len(vals)]
    IN  IF r.count > 0 THEN Div(r.sum, r.count) ELSE Undefined

\* Math.round(a / b) for b > 0: the nearest integer, halves upwards
RoundDiv(a, b) == (2 * a + b) \div (2 * b)

\* Math.floor(Math.log10(num / den)) for num / den >= 1/10
FloorLog10(num, den) ==
    IF num < den THEN -1
    ELSE LET p[k \in 0..num] ==
                 IF num < den * Pow10(k + 1) THEN k ELSE p[k + 1]
         IN  p[0]

\* tickSpec(start, stop, count) of d3-array for integers start < stop:
\* [i1, i2, inc]; inc < 0 stands for the step 1 / -inc
TickSpec(start, stop, count) ==
    LET diff   == stop - start              \* step = diff / count
        power  == FloorLog10(diff, count)
        \* error = step / 10^power = en / ed
        en     == IF power < 0 THEN diff * Pow10(-power) ELSE diff
        ed     == IF power < 0 THEN count ELSE count * Pow10(power)
        \* e10 = sqrt(50), e5 = sqrt(10), e2 = sqrt(2)
        factor == IF en * en >= 50 * ed * ed THEN 10
                  ELSE IF en * en >= 10 * ed * ed THEN 5
                  ELSE IF en * en >= 2 * ed * ed THEN 2 ELSE 1
    IN  IF power < 0
        THEN LET inc == Pow10(-power) \div factor
                 i1  == start * inc
                 i2  == stop * inc
             IN  [i1 |-> i1, i2 |-> i2, inc |-> -inc]
        ELSE LET inc == Pow10(power) * factor
                 r1  == RoundDiv(start, inc)
                 r2  == RoundDiv(stop, inc)
                 i1  == IF r1 * inc < start THEN r1 + 1 ELSE r1
                 i2  == IF r2 * inc > stop THEN r2 - 1 ELSE r2
             IN  [i1 |-> i1, i2 |-> i2, inc |-> inc]

\* d3.ticks(start, stop, count) for count > 0 and start <= stop, each an
\* integer or undefined: +undefined is NaN, and NaN bounds give no tick
D3Ticks(start, stop, count) ==
    IF ~IsNum(start) \/ ~IsNum(stop) THEN <<>>
    ELSE IF start = stop THEN <<start>>
    ELSE LET ts == TickSpec(start.n, stop.n, count)
             n  == ts.i2 - ts.i1 + 1
         IN  IF ts.i2 < ts.i1 THEN <<>>
             ELSE IF ts.inc < 0
                  THEN [i \in 1..n |-> Num(ts.i1 + i - 1, -ts.inc)]
                  ELSE [i \in 1..n |-> IntNum((ts.i1 + i - 1) * ts.inc)]

\* bisectRight(a, x, 0, hi) over a sorted a: the number of its first hi
\* elements that are <= x, found by halving (indices from 0 as in d3)
RECURSIVE BisectRight(_, _, _, _)
BisectRight(a, x, lo, hi) ==
    IF lo < hi
    THEN LET mid == (lo + hi) \div 2
         IN  IF Leq(a[mid + 1], x) THEN BisectRight(a, x, mid + 1, hi)
                                   ELSE BisectRight(a, x, lo, mid)
    ELSE lo

Min2(a, b) == IF a < b THEN a ELSE b

\* d3.scaleThreshold().domain(domain).range(range) applied to a number x
ScaleThreshold(domain, range, x) ==
    LET n == Min2(Len(domain), Len(range) - 1)
    IN  range[BisectRight(domain, x, 0, n) + 1]

\* The keys of a sequence of [key, value] pairs in the order of their first
\* occurrence (the insertion order of the Map that d3.rollup fills)
KeysInOrder(pairs) ==
    LET ks[i \in 0..Len(pairs)] ==
            IF i = 0 THEN <<>>
            ELSE IF \E j \in 1..Len(ks[i-1]) : ks[i-1][j] = pairs[i].key
                 THEN ks[i-1] ELSE Append(ks[i-1], pairs[i].key)
    IN  ks[Len(pairs)]

\* The values of the pairs with a key, in their order
GroupOf(pairs, key) ==
    LET g == SelectSeq(pairs, LAMBDA p : p.key = key)
    IN  [i \in 1..Len(g) |-> g[i].value]

\* d3.rollups(rows, v => d3.mean(v, value), key) over the rows' [key, value]
\* pairs: one [key, mean of the group] per key; d3.rollup is the Map with
\* these entries
D3RollupsMean(pairs) ==
    LET ks == KeysInOrder(pairs)
    IN  [i \in 1..Len(ks) |-> [key |-> ks[i], value |-> D3Mean(GroupOf(pairs, ks[i]))]]

\* Map.get(key): undefined for a key the map does not hold
MapGet(entries, key) ==
    IF \E i \in 1..Len(entries) : entries[i].key = key
    THEN entries[CHOOSE i \in 1..Len(entries) : entries[i].key = key].value
    ELSE Undefined

MapHas(entries, key) == \E i \in 1..Len(entries) : entries[i].key = key

\* The points left in the order of the rollup
SortSkipped(points) == points

\* Array.prototype.sort((a, b) => a.date - b.date): a stable sort by date
SortByDate(points) ==
    LET Insert(sorted, p) ==
            LET k == Cardinality({j \in 1..Len(sorted) : sorted[j].date <= p.date})
            IN  SubSeq(sorted, 1, k) \o <<p>> \o SubSeq(sorted, k + 1, Len(sorted))
        srt[i \in 0..Len(points)] ==
            IF i = 0 THEN <<>> ELSE Insert(srt[i-1], points[i])
    IN  srt[Len(points)]

----------------------------------------------------------------------------
(* The program's constants and the inputs of the model *)

VarKeys == {"ndvi", "lstDay", "lstNight", "et"}
Fields  == {"NDVI", "LST_Day", "LST_Night", "ET"}

VAR_CONFIG ==
    [k \in VarKeys |->
        CASE k = "ndvi"     -> [field |-> "NDVI", colorType |-> "greens"]
          [] k = "lstDay"   -> [field |-> "LST_Day", colorType |-> "temp"]
          [] k = "lstNight" -> [field |-> "LST_Night", colorType |-> "temp"]
          [] k = "et"       -> [field |-> "ET", colorType |-> "blues"]]

\* d3.schemeGreens[7].slice(1), d3.schemeBlues[7].slice(1), d3.schemeGreys[7].slice(1)
Greens == <<"#c7e9c0", "#a1d99b", "#74c476", "#41ab5d", "#238b45", "#005a32">>
Blues  == <<"#c6dbef", "#9ecae1", "#6baed6", "#4292c6", "#2171b5", "#084594">>
Greys  == <<"#d9d9d9", "#bdbdbd", "#969696", "#737373", "#525252", "#252525">>
Temps  == <<"#1d4ed8", "#2563eb", "#38bdf8", "#facc15", "#fb923c", "#ef4444">>

NoDataFill == "#020617"
NullState  == "null"            \* selectedState = null: the U.S. average

\* The states of the boundary data and of the table, the values of the
\* year slider and of the month select
GeoStates  == {"CA", "NY"}
DataStates == {"CA", "NY"}
Years      == {FirstYear, FirstYear + 1}
Months     == {FirstMonth, FirstMonth + 1}

\* new Date(d.date) as a number: the first of the month, counted in months
DateOf(y, m) == 12 * y + (m - 1)

\* The row d3.csv makes of a line: filled is the set of its fields that hold
\* the reading c, the others are empty strings, hence null
Row(s, y, m, filled, c) ==
    [state |-> s, year |-> y, month |-> m,
     NDVI      |-> IF "NDVI" \in filled THEN c ELSE Null,
     LST_Day   |-> IF "LST_Day" \in filled THEN c ELSE Null,
     LST_Night |-> IF "LST_Night" \in filled THEN c ELSE Null,
     ET        |-> IF "ET" \in filled THEN c ELSE Null,
     date |-> DateOf(y, m)]

\* Tables fetched at start-up: at most one line per state and month, in the
\* order of the file; a line holds one reading of 0..MaxGridVal in all four
\* columns, a zero in the NDVI column alone, or no reading at all
GridKeys == << <<"CA", FirstYear, FirstMonth>>, <<"CA", FirstYear + 1, FirstMonth + 1>>,
               <<"NY", FirstYear, FirstMonth>> >>

GridRowsAt(k) ==
    {Row(k[1], k[2], k[3], {}, Null), Row(k[1], k[2], k[3], {"NDVI"}, IntNum(0))}
    \cup {Row(k[1], k[2], k[3], Fields, IntNum(c)) : c \in 0..MaxGridVal}

RECURSIVE GridTablesFrom(_)
GridTablesFrom(i) ==
    IF i > Len(GridKeys) THEN {<<>>}
    ELSE LET rest == GridTablesFrom(i + 1)
         IN  rest \cup {<<r>> \o t : r \in GridRowsAt(GridKeys[i]), t \in rest}

GridTables == GridTablesFrom(1)

\* Tables given to the aggregations: at most MaxRows lines in any order, a
\* state and month may repeat; a line holds one reading in all four columns
\* or none
AggReadings == {IntNum(0), IntNum(5), IntNum(7)}
AggRows ==
    {Row(s, FirstYear, m, Fields, c) :
        s \in DataStates, m \in Months, c \in AggReadings \cup {Null}}

RECURSIVE SeqsUpTo(_, _)
SeqsUpTo(S, n) ==
    IF n = 0 THEN {<<>>}
    ELSE LET shorter == SeqsUpTo(S, n - 1)
         IN  shorter \cup {Append(t, r) : t \in {u \in shorter : Len(u) = n - 1}, r \in S}

AggTables == SeqsUpTo(AggRows, MaxRows)

\* The document: the slides, and per slide whether it is a .type-slide, has
\* a .typewriter element, and that element's data-fulltext
Slides == 0..(NumSlides - 1)
FullText(n) == [k \in 1..n |-> k]
SlideDocs ==
    {[kind |-> "plain", full |-> <<>>], [kind |-> "typeNoEl", full |-> <<>>]}
    \cup {[kind |-> "type", full |-> FullText(n)] : n \in 0..MaxTextLen}

----------------------------------------------------------------------------
(* Statistics: computeVarStats *)

ColorsOf(colorType) ==
    CASE colorType = "greens" -> Greens
      [] colorType = "blues"  -> Blues
      [] colorType = "temp"   -> Temps
      [] OTHER                -> Greys

\* The entry computeVarStats stores for one variable
StatsOf(data, cfg) ==
    LET vals == SelectSeq([i \in 1..Len(data) |-> data[i][cfg.field]], IsValid)
        min  == D3Min(vals)
        max  == D3Max(vals)
    IN  [min |-> min, max |-> max,
         thresholds |-> D3Ticks(min, max, TickCount),
         colors |-> ColorsOf(cfg.colorType)]

ComputeVarStats(data) == [k \in VarKeys |-> StatsOf(data, VAR_CONFIG[k])]

\* stats.scale(v)
Scale(stats, v) == ScaleThreshold(stats.thresholds, stats.colors, v)

----------------------------------------------------------------------------
(* Aggregation: the rollup of updateMap and buildSeriesForState *)

\* d3.rollup(modisData.filter(year, month), v => d3.mean(v, d => d[field]), d => d.state)
ValuesByState(data, field, year, month) ==
    LET filtered == SelectSeq(data, LAMBDA d : d.year = year /\ d.month = month)
    IN  D3RollupsMean([i \in 1..Len(filtered) |->
                          [key |-> filtered[i].state, value |-> filtered[i][field]]])

\* The fill updateMap gives the path of state name
FillOf(stats, values, name) ==
    LET v == MapGet(values, name)
    IN  IF ~NotNullish(v) \/ v = NaN THEN NoDataFill ELSE Scale(stats, v)

BuildSeriesForState(data, var, stateName) ==
    LET field    == VAR_CONFIG[var].field
        filtered == SelectSeq(data, LAMBDA d : stateName = NullState \/ d.state = stateName)
        rolled   == D3RollupsMean([i \in 1..Len(filtered) |->
                                      [key |-> filtered[i].date, value |-> filtered[i][field]]])
        byDate   == [i \in 1..Len(rolled) |-> [date |-> rolled[i].key, value |-> rolled[i].value]]
    IN  SortByDate(SelectSeq(byDate, LAMBDA p : IsValid(p.value)))

----------------------------------------------------------------------------
(* The views *)

\* x.toFixed(1): one decimal, halves upwards
ToFixed1(x) == Num(RoundDiv(10 * x.n, x.d), 10)

NoLegend == [label |-> "", swatches |-> 0, texts |-> <<>>]

\* drawMapLegend: the legend it leaves, and whether it threw.  Bin i runs from
\* allStops[i] to allStops[i + 1]; a bin whose from or to is undefined makes
\* toFixed throw after the bin's swatch is appended.
DrawMapLegend(var, stats) ==
    LET allStops == <<stats.min>> \o stats.thresholds \o <<stats.max>>
        Stop(i)  == IF i <= Len(allStops) THEN allStops[i] ELSE Undefined
        n        == Len(stats.colors)
        bad      == {i \in 1..n : ~IsNum(Stop(i)) \/ ~IsNum(Stop(i + 1))}
        drawn    == IF bad = {} THEN n
                    ELSE (CHOOSE i \in bad : \A j \in bad : i <= j) - 1
    IN  [legend |-> [label |-> var,
                     swatches |-> IF bad = {} THEN n ELSE drawn + 1,
                     texts |-> [i \in 1..drawn |->
                                   <<stats.colors[i], ToFixed1(Stop(i)), ToFixed1(Stop(i + 1))>>]],
         threw |-> bad # {}]

\* updateMap for the selection (var, year, month) over the state paths drawn,
\* fills being their fills so far:
\* whether it went past its guard, the rollup, the fills, the legend, and
\* whether it threw
UpdateMap(var, year, month, fills) ==
    IF var \notin DOMAIN varStats
    THEN [ran |-> FALSE, values |-> valuesByState, fill |-> fills,
          legend |-> legend, threw |-> FALSE]
    ELSE LET stats  == varStats[var]
             values == ValuesByState(modisData, VAR_CONFIG[var].field, year, month)
             lg     == DrawMapLegend(var, stats)
         IN  [ran |-> TRUE, values |-> values,
              fill |-> [name \in DOMAIN fills |-> FillOf(stats, values, name)],
              legend |-> lg.legend, threw |-> lg.threw]

\* updateSeasonalChart for (var, state): the series built, whether the chart
\* is redrawn with it, and whether it threw.  An empty series returns before
\* anything is drawn; without initSeasonalChart xScale is undefined.
UpdateSeasonalChart(var, state, chartReady) ==
    LET sr == BuildSeriesForState(modisData, var, state)
    IN  [series |-> sr,
         drawn  |-> Len(sr) > 0 /\ chartReady,
         threw  |-> Len(sr) > 0 /\ ~chartReady]

----------------------------------------------------------------------------
(* Slides and the typewriter *)

\* A start that does not look at typingStarted
TypewriterRestarts(idx) == slideKind[idx] = "type"

\* The two early returns of startTypewriterOnSlide before typingStarted.add
TypewriterMayStart(idx) == slideKind[idx] = "type" /\ idx \notin typingStarted

\* startTypewriterOnSlide(idx): the text is emptied, the first tick() runs at
\* once (it writes full.slice(0, 0) and sets i to 1) and arms the timer
StartTypewriterOnSlide(idx) ==
    IF TypewriterMayStart(idx)
    THEN /\ typingStarted' = typingStarted \cup {idx}
         /\ textContent' = [textContent EXCEPT ![idx] = SubSeq(fullText[idx], 1, 0)]
         /\ timers' = Append(timers, [slide |-> idx, i |-> 1])
         /\ chains' = [chains EXCEPT ![idx] = @ + 1]
    ELSE UNCHANGED <<typingStarted, textContent, timers, chains>>

\* initSlides: the pager dots (the first one active), the listeners, and the
\* typewriter of the current slide
InitSlides ==
    /\ active' = {0}
    /\ StartTypewriterOnSlide(currentSlide)
    /\ UNCHANGED <<slideKind, fullText, currentSlide>>

GoToSlide(idx) ==
    /\ pc # "start"
    /\ active' = (active \ {currentSlide}) \cup {idx}
    /\ currentSlide' = idx
    /\ StartTypewriterOnSlide(idx)
    /\ UNCHANGED <<slideKind, fullText>>
    /\ UNCHANGED dataVars

PrevClick  == GoToSlide((currentSlide - 1 + NumSlides) % NumSlides)
NextClick  == GoToSlide((currentSlide + 1) % NumSlides)
ArrowRight == GoToSlide((currentSlide + 1) % NumSlides)
ArrowLeft  == GoToSlide((currentSlide - 1 + NumSlides) % NumSlides)
DotClick   == \E idx \in Slides : GoToSlide(idx)

\* tick(), run by the timer armed first (all timers have the same delay)
Tick ==
    /\ timers # <<>>
    /\ LET tm   == Head(timers)
           full == fullText[tm.slide]
       IN  IF tm.i <= Len(full)
           THEN /\ textContent' = [textContent EXCEPT ![tm.slide] = SubSeq(full, 1, tm.i)]
                /\ timers' = Append(Tail(timers), [slide |-> tm.slide, i |-> tm.i + 1])
           ELSE /\ timers' = Tail(timers)
                /\ UNCHANGED textContent
    /\ UNCHANGED <<slideKind, fullText, currentSlide, active, typingStarted, chains>>
    /\ UNCHANGED dataVars

----------------------------------------------------------------------------
(* Start-up: init and loadData *)

\* A barrier that opens with the first request completed (Promise.race, Promise.any)
PromiseAnyFulfilled == csv.state = "done" \/ json.state = "done"

\* A barrier that opens when both requests are settled, failed or not (Promise.allSettled)
PromiseAllSettled == csv.state \in {"done", "failed"} /\ json.state \in {"done", "failed"}

\* Promise.all of the two requests is fulfilled / rejected
PromiseAllFulfilled == csv.state = "done" /\ json.state = "done"
PromiseAllRejected  == csv.state = "failed" \/ json.state = "failed"

\* init() up to its await: initSlides(), then loadData() issues both requests
Start ==
    /\ pc = "start"
    /\ pc' = "loading"
    /\ InitSlides
    /\ csv' = [state |-> "pending", rows |-> <<>>]
    /\ json' = [state |-> "pending", kind |-> "none"]
    /\ UNCHANGED <<modisData, statesGeo, varStats, currentVar, currentYear, currentMonth,
                   selectedState, valuesByState, mapFill, legend, chartSeries, series,
                   stateTitle, highlight, calls, threw>>

FetchLeavesTheRest ==
    UNCHANGED <<pc, modisData, statesGeo, varStats, currentVar, currentYear, currentMonth,
                selectedState, valuesByState, mapFill, legend, chartSeries, series,
                stateTitle, highlight, calls, threw, slideVars>>

CsvArrives ==
    /\ csv.state = "pending"
    /\ \E t \in GridTables : csv' = [state |-> "done", rows |-> t]
    /\ UNCHANGED json
    /\ FetchLeavesTheRest

CsvFails ==
    /\ csv.state = "pending"
    /\ csv' = [csv EXCEPT !.state = "failed"]
    /\ UNCHANGED json
    /\ FetchLeavesTheRest

\* The boundary data arrives: a topology with objects.states, or some other JSON
JsonArrives ==
    /\ json.state = "pending"
    /\ \E k \in {"ok", "malformed"} : json' = [state |-> "done", kind |-> k]
    /\ UNCHANGED csv
    /\ FetchLeavesTheRest

JsonFails ==
    /\ json.state = "pending"
    /\ json' = [json EXCEPT !.state = "failed"]
    /\ UNCHANGED csv
    /\ FetchLeavesTheRest

\* The then-callback of loadData: the globals are set, feature() reads
\* usTopo.objects.states (a TypeError when there is none), computeVarStats()
LoadDataThen ==
    /\ pc = "loading"
    /\ PromiseAllFulfilled
    /\ modisData' = csv.rows
    /\ IF json.kind = "ok"
       THEN /\ statesGeo' = GeoStates
            /\ varStats' = ComputeVarStats(csv.rows)
            /\ calls' = calls \cup {"computeVarStats"}
            /\ pc' = "loaded"
            /\ threw' = FALSE
       ELSE /\ pc' = "rejected"
            /\ threw' = TRUE
            /\ UNCHANGED <<statesGeo, varStats, calls>>
    /\ UNCHANGED <<csv, json, currentVar, currentYear, currentMonth, selectedState,
                   valuesByState, mapFill, legend, chartSeries, series, stateTitle,
                   highlight, slideVars>>

\* A request failed: the await in init throws and init's promise is rejected
LoadDataRejects ==
    /\ pc = "loading"
    /\ PromiseAllRejected
    /\ pc' = "rejected"
    /\ threw' = TRUE
    /\ UNCHANGED <<csv, json, modisData, statesGeo, varStats, currentVar, currentYear,
                   currentMonth, selectedState, valuesByState, mapFill, legend, chartSeries,
                   series, stateTitle, highlight, calls, slideVars>>

\* init() after its await: initControls(), initMap() (the base paths, the
\* click listener, updateMap()), initSeasonalChart() (updateSeasonalChart()).
\* A TypeError in updateMap ends init there.
InitResume ==
    /\ pc = "loaded"
    /\ LET um == UpdateMap(currentVar, currentYear, currentMonth,
                           [name \in statesGeo |-> NoDataFill])
           sc == UpdateSeasonalChart(currentVar, selectedState, TRUE)
           mp == {"updateMap"} \cup (IF um.ran THEN {"rollup"} ELSE {})
       IN  /\ valuesByState' = um.values
           /\ mapFill' = um.fill
           /\ legend' = um.legend
           /\ threw' = um.threw
           /\ IF um.threw
              THEN /\ pc' = "rejected"
                   /\ calls' = calls \cup {"initControls", "initMap"} \cup mp
                   /\ UNCHANGED <<chartSeries, series, stateTitle>>
              ELSE /\ pc' = "ready"
                   /\ calls' = calls \cup {"initControls", "initMap"} \cup mp
                                    \cup {"initSeasonalChart", "updateSeasonalChart",
                                          "buildSeriesForState"}
                   /\ series' = sc.series
                   /\ chartSeries' = IF sc.drawn THEN sc.series ELSE chartSeries
                   /\ stateTitle' = IF sc.drawn
                                    THEN [state |-> selectedState, var |-> currentVar]
                                    ELSE stateTitle
    /\ UNCHANGED <<csv, json, modisData, statesGeo, varStats, currentVar, currentYear,
                   currentMonth, selectedState, highlight, slideVars>>

----------------------------------------------------------------------------
(* The event handlers *)

ControlsBound == "initControls" \in calls
MapBound      == "initMap" \in calls
ChartReady    == "initSeasonalChart" \in calls

\* updateMap() run by a listener for the selection (var, year, month)
RunUpdateMap(um) ==
    /\ valuesByState' = um.values
    /\ mapFill' = um.fill
    /\ legend' = um.legend

\* The listeners of the year slider and of the month select: updateMap() only
MapOnly(var, year, month) ==
    LET um == UpdateMap(var, year, month, mapFill)
    IN  /\ RunUpdateMap(um)
        /\ threw' = um.threw
        /\ calls' = calls \cup {"updateMap"} \cup (IF um.ran THEN {"rollup"} ELSE {})
        /\ UNCHANGED <<chartSeries, series, stateTitle, highlight, selectedState>>

\* varSelect "change": updateMap(), then updateSeasonalChart() unless
\* updateMap threw
VarChange ==
    /\ ControlsBound
    /\ \E v \in VarKeys :
        LET um == UpdateMap(v, currentYear, currentMonth, mapFill)
            sc == UpdateSeasonalChart(v, selectedState, ChartReady)
        IN  /\ currentVar' = v
            /\ RunUpdateMap(um)
            /\ IF um.threw
               THEN /\ threw' = TRUE
                    /\ calls' = calls \cup {"updateMap", "rollup"}
                    /\ UNCHANGED <<chartSeries, series, stateTitle>>
               ELSE /\ threw' = sc.threw
                    /\ calls' = calls \cup {"updateMap", "updateSeasonalChart",
                                            "buildSeriesForState"}
                                      \cup (IF um.ran THEN {"rollup"} ELSE {})
                    /\ series' = sc.series
                    /\ chartSeries' = IF sc.drawn THEN sc.series ELSE chartSeries
                    /\ stateTitle' = IF sc.drawn
                                     THEN [state |-> selectedState, var |-> v]
                                     ELSE stateTitle
    /\ UNCHANGED <<pc, csv, json, modisData, statesGeo, varStats, currentYear, currentMonth,
                   selectedState, highlight, slideVars>>

\* yearSlider "input"
YearInput ==
    /\ ControlsBound
    /\ \E y \in Years :
        /\ currentYear' = y
        /\ MapOnly(currentVar, y, currentMonth)
    /\ UNCHANGED <<pc, csv, json, modisData, statesGeo, varStats, currentVar, currentMonth,
                   slideVars>>

\* monthSelect "change"
MonthChange ==
    /\ ControlsBound
    /\ \E m \in Months :
        /\ currentMonth' = m
        /\ MapOnly(currentVar, currentYear, m)
    /\ UNCHANGED <<pc, csv, json, modisData, statesGeo, varStats, currentVar, currentYear,
                   slideVars>>

\* A click on a state path: updateSeasonalChart(), updateStateTitle(), the
\* highlight stroke; nothing after updateSeasonalChart when that throws
StateClick ==
    /\ MapBound
    /\ \E name \in DOMAIN mapFill :
        LET sc == UpdateSeasonalChart(currentVar, name, ChartReady)
        IN  /\ selectedState' = name
            /\ series' = sc.series
            /\ chartSeries' = IF sc.drawn THEN sc.series ELSE chartSeries
            /\ threw' = sc.threw
            /\ calls' = calls \cup {"updateSeasonalChart", "buildSeriesForState"}
            /\ IF sc.threw
               THEN UNCHANGED <<stateTitle, highlight>>
               ELSE /\ stateTitle' = [state |-> name, var |-> currentVar]
                    /\ highlight' = name
    /\ UNCHANGED <<pc, csv, json, modisData, statesGeo, varStats, currentVar, currentYear,
                   currentMonth, valuesByState, mapFill, legend, slideVars>>

----------------------------------------------------------------------------
(* The aggregations applied to a table, outside the start-up sequence *)

RollupByState ==
    /\ calls = {}
    /\ \E var \in VarKeys, m \in Months :
        /\ currentVar' = var
        /\ currentMonth' = m
        /\ valuesByState' = ValuesByState(modisData, VAR_CONFIG[var].field, currentYear, m)
    /\ calls' = {"rollup"}
    /\ UNCHANGED <<pc, csv, json, modisData, statesGeo, varStats, currentYear, selectedState,
                   mapFill, legend, chartSeries, series, stateTitle, highlight, threw,
                   slideVars>>

BuildSeries ==
    /\ calls = {}
    /\ \E var \in VarKeys, s \in DataStates \cup {NullState} :
        /\ currentVar' = var
        /\ selectedState' = s
        /\ series' = BuildSeriesForState(modisData, var, s)
    /\ calls' = {"buildSeriesForState"}
    /\ UNCHANGED <<pc, csv, json, modisData, statesGeo, varStats, currentYear, currentMonth,
                   valuesByState, mapFill, legend, chartSeries, stateTitle, highlight, threw,
                   slideVars>>

----------------------------------------------------------------------------
(* Specifications *)

\* The globals as main.js declares them; the page's text (the titles of the
\* chart) is the document's
InitData ==
    /\ pc = "start"
    /\ csv = [state |-> "idle", rows |-> <<>>]
    /\ json = [state |-> "idle", kind |-> "none"]
    /\ modisData = <<>>
    /\ statesGeo = {}
    /\ varStats = <<>>
    /\ currentVar = "ndvi"
    /\ currentYear = FirstYear
    /\ currentMonth = FirstMonth
    /\ selectedState = NullState
    /\ valuesByState = <<>>
    /\ mapFill = <<>>
    /\ legend = NoLegend
    /\ chartSeries = <<>>
    /\ series = <<>>
    /\ stateTitle = [state |-> "", var |-> ""]
    /\ highlight = NullState
    /\ calls = {}
    /\ threw = FALSE

InitDeck(doc) ==
    /\ slideKind = [i \in Slides |-> doc[i].kind]
    /\ fullText = [i \in Slides |-> doc[i].full]
    /\ currentSlide = 0
    /\ active = {}
    /\ typingStarted = {}
    /\ textContent = [i \in Slides |-> <<>>]
    /\ timers = <<>>
    /\ chains = [i \in Slides |-> 0]

\* The application over a document of plain slides
Init == InitData /\ InitDeck([i \in Slides |-> [kind |-> "plain", full |-> <<>>]])

Next ==
    \/ Start
    \/ CsvArrives
    \/ CsvFails
    \/ JsonArrives
    \/ JsonFails
    \/ LoadDataThen
    \/ LoadDataRejects
    \/ InitResume
    \/ VarChange
    \/ YearInput
    \/ MonthChange
    \/ StateClick

Spec == Init /\ [][Next]_vars

\* The slide deck over any document
SlidesInit == InitData /\ \E doc \in [Slides -> SlideDocs] : InitDeck(doc)

SlidesNext ==
    \/ Start
    \/ PrevClick
    \/ NextClick
    \/ ArrowRight
    \/ ArrowLeft
    \/ DotClick
    \/ Tick

SpecSlides == SlidesInit /\ [][SlidesNext]_vars

\* The aggregations over any table
AggInit ==
    /\ InitDeck([i \in Slides |-> [kind |-> "plain", full |-> <<>>]])
    /\ pc = "start"
    /\ csv = [state |-> "idle", rows |-> <<>>]
    /\ json = [state |-> "idle", kind |-> "none"]
    /\ modisData \in AggTables
    /\ statesGeo = {}
    /\ varStats = <<>>
    /\ currentVar = "ndvi"
    /\ currentYear = FirstYear
    /\ currentMonth = FirstMonth
    /\ selectedState = NullState
    /\ valuesByState = <<>>
    /\ mapFill = <<>>
    /\ legend = NoLegend
    /\ chartSeries = <<>>
    /\ series = <<>>
    /\ stateTitle = [state |-> "", var |-> ""]
    /\ highlight = NullState
    /\ calls = {}
    /\ threw = FALSE

AggNext == RollupByState \/ BuildSeries

SpecAgg == AggInit /\ [][AggNext]_vars

----------------------------------------------------------------------------
(* Properties *)

StatsComputed == "computeVarStats" \in calls

\* The valid readings of a variable in the record store
ValidCells(var) ==
    {c \in {modisData[i][VAR_CONFIG[var].field] : i \in 1..Len(modisData)} : IsValid(c)}

StrictlyAscending(t) == \A i \in 1..(Len(t) - 1) : Lt(t[i], t[i + 1])

\* C1: once computeVarStats has run, a variable with at least two distinct
\* valid values has exactly 5 thresholds and 6 colors, the thresholds strictly
\* ascending and each strictly between min and max.
C1_FiveInteriorThresholds ==
    StatsComputed =>
        \A k \in VarKeys :
            Cardinality(ValidCells(k)) >= 2 =>
                LET st == varStats[k]
                IN  /\ Len(st.thresholds) = 5
                    /\ Len(st.colors) = 6
                    /\ StrictlyAscending(st.thresholds)
                    /\ \A i \in 1..Len(st.thresholds) :
                           Lt(st.min, st.thresholds[i]) /\ Lt(st.thresholds[i], st.max)

\* The bin the claimed classifier gives v: as many of the first five thresholds
\* lie strictly below v (upper bounds inclusive)
ClaimedBin(stats, v) ==
    Cardinality({i \in 1..Min2(Len(stats.thresholds), 5) : Lt(stats.thresholds[i], v)})

\* C2: the fill updateMap gives a state with a mean v is the color of the bin
\* with upper bounds inclusive: v <= thresholds[0] gives colors[0],
\* thresholds[i-1] < v <= thresholds[i] gives colors[i], v > thresholds[4]
\* gives colors[5] (for a variable with at least two distinct valid values).
C2_UpperBoundsInclusive ==
    ("rollup" \in calls /\ StatsComputed /\ Cardinality(ValidCells(currentVar)) >= 2) =>
        \A name \in DOMAIN mapFill :
            LET v == MapGet(valuesByState, name)
            IN  IsNum(v) =>
                    mapFill[name] = varStats[currentVar].colors[ClaimedBin(varStats[currentVar], v) + 1]

\* C3: a variable whose every value is missing gets no stats entry, and no
\* task dies dereferencing missing statistics.
C3_NoDataHasNoStats ==
    StatsComputed =>
        /\ \A k \in VarKeys : ValidCells(k) = {} => k \notin DOMAIN varStats
        /\ ~threw

\* The rows the rollup of updateMap groups under a state, and those of them
\* with a valid reading
RowsOfState(name) ==
    {i \in 1..Len(modisData) :
        /\ modisData[i].state = name
        /\ modisData[i].year = currentYear
        /\ modisData[i].month = currentMonth}

ValidRowsOfState(name) ==
    {i \in RowsOfState(name) : IsValid(modisData[i][VAR_CONFIG[currentVar].field])}

RECURSIVE SumOfRows(_)
SumOfRows(I) ==
    IF I = {} THEN 0
    ELSE LET i == CHOOSE j \in I : TRUE
         IN  modisData[i][VAR_CONFIG[currentVar].field].n + SumOfRows(I \ {i})

\* v is the mean of the readings of the rows I
IsMeanOf(v, I) == IsNum(v) /\ v.n * Cardinality(I) = v.d * SumOfRows(I)

\* The rows buildSeriesForState groups under a date, and the valid ones
RowsOfDate(dt) ==
    {i \in 1..Len(modisData) :
        /\ modisData[i].date = dt
        /\ (selectedState = NullState \/ modisData[i].state = selectedState)}

ValidRowsOfDate(dt) ==
    {i \in RowsOfDate(dt) : IsValid(modisData[i][VAR_CONFIG[currentVar].field])}

AllDates == {modisData[i].date : i \in 1..Len(modisData)}

\* C5: every group with a non-missing value reduces to the mean of its
\* non-missing values alone, by state in the rollup of updateMap and by date
\* in buildSeriesForState.
C5_MeanOfNonMissing ==
    /\ "rollup" \in calls =>
          \A name \in DataStates :
              ValidRowsOfState(name) # {} =>
                  IsMeanOf(MapGet(valuesByState, name), ValidRowsOfState(name))
    /\ "buildSeriesForState" \in calls =>
          \A dt \in AllDates :
              ValidRowsOfDate(dt) # {} =>
                  \E i \in 1..Len(series) :
                      series[i].date = dt /\ IsMeanOf(series[i].value, ValidRowsOfDate(dt))

\* A group of three rows, one of them missing, the other two different
C5_Witness ==
    \/ /\ "rollup" \in calls
       /\ \E name \in DataStates :
            /\ Cardinality(RowsOfState(name)) = 3
            /\ Cardinality(ValidRowsOfState(name)) = 2
            /\ MapGet(valuesByState, name) = IntNum(6)
    \/ /\ "buildSeriesForState" \in calls
       /\ \E dt \in AllDates :
            /\ Cardinality(RowsOfDate(dt)) = 3
            /\ Cardinality(ValidRowsOfDate(dt)) = 2
            /\ \E i \in 1..Len(series) : series[i].date = dt /\ series[i].value = IntNum(6)

\* C6: the series buildSeriesForState returns is strictly ascending by date.
C6_SeriesStrictlyAscending ==
    "buildSeriesForState" \in calls =>
        \A i \in 1..(Len(series) - 1) : series[i].date < series[i + 1].date

\* Two dates in the series, met in the table in descending order, one of them
\* in two rows
C6_Witness ==
    /\ "buildSeriesForState" \in calls
    /\ Len(series) = 2
    /\ Len(modisData) = 3
    /\ modisData[1].date > modisData[2].date
    /\ modisData[3].date = modisData[1].date
    /\ \A i \in 1..3 : i \in ValidRowsOfDate(modisData[i].date)

\* C7: nothing of the data side (computeVarStats, initControls, initMap,
\* initSeasonalChart, updateMap, updateSeasonalChart, buildSeriesForState)
\* has run unless both requests have completed.
C7_StartupBarrier ==
    calls # {} => csv.state = "done" /\ json.state = "done"

C7_Witness ==
    /\ pc = "ready"
    /\ {"computeVarStats", "initControls", "initMap", "initSeasonalChart", "updateMap",
        "updateSeasonalChart", "buildSeriesForState"} \subseteq calls
    /\ Len(modisData) > 0

\* C8: once a request has failed, init never gets past loadData: nothing of
\* the data side runs, nothing is drawn and varStats stays empty.
C8_FailureHaltsInit ==
    (csv.state = "failed" \/ json.state = "failed") =>
        /\ pc \in {"loading", "rejected"}
        /\ calls = {}
        /\ varStats = <<>>
        /\ mapFill = <<>>
        /\ chartSeries = <<>>

C8_Witness ==
    /\ pc = "rejected"
    /\ csv.state = "done" /\ Len(csv.rows) > 0
    /\ json.state = "failed"

\* C9: once start-up has finished, the map shows the aggregation of the
\* current (currentVar, currentYear, currentMonth) and the chart and its title
\* show the series of the current (currentVar, selectedState).
C9_ViewsFollowSelection ==
    pc = "ready" =>
        /\ mapFill = [name \in GeoStates |->
                         FillOf(varStats[currentVar],
                                ValuesByState(modisData, VAR_CONFIG[currentVar].field,
                                              currentYear, currentMonth),
                                name)]
        /\ legend.label = currentVar
        /\ chartSeries = BuildSeriesForState(modisData, currentVar, selectedState)
        /\ stateTitle = [state |-> selectedState, var |-> currentVar]

IsPrefix(a, b) == Len(a) <= Len(b) /\ a = SubSeq(b, 1, Len(a))

TimersOf(s) == {k \in 1..Len(timers) : timers[k].slide = s}

\* C10: at most one tick chain is ever started on a slide, at most one timer
\* of it is pending, its text is a prefix of the full text that only grows,
\* and is the full text when the chain has ended.
C10_TypewriterOnce ==
    /\ [](\A s \in Slides :
            /\ chains[s] <= 1
            /\ Cardinality(TimersOf(s)) <= 1
            /\ IsPrefix(textContent[s], fullText[s])
            /\ (s \in typingStarted /\ TimersOf(s) = {}) => textContent[s] = fullText[s])
    /\ [][\A s \in Slides : IsPrefix(textContent[s], textContent'[s])]_vars

\* The first slide, left while its animation runs and entered again: every
\* slide has been shown and its typewriter started
C10_Witness ==
    /\ currentSlide = 0
    /\ chains[0] = 1
    /\ Len(fullText[0]) = MaxTextLen
    /\ Len(textContent[0]) = 1
    /\ TimersOf(0) # {}
    /\ typingStarted = Slides

============================================================================
